---- MODULE Spec2Model ----
(***************************************************************************)
(* nix-query: the command execution layer (proc.rs), the bulk listing      *)
(* rewriter and the tolerant metadata decoder (nix.rs), the cache layer    *)
(* (cache.rs) and the binary's own copies of the cache functions           *)
(* (main.rs).                                                              *)
(*                                                                         *)
(* A Rust String / Vec<u8> is a sequence of one-character strings; the     *)
(* element "xFF" stands for a byte that can occur in no UTF-8 text.        *)
(* A Result is a record [ok, val]: val is the value when ok, and the       *)
(* error (a sequence of variant names) otherwise.                          *)
(***************************************************************************)
EXTENDS Integers, Sequences, FiniteSets, TLC

VARIABLES cache_path, file, last, prev

vars == <<cache_path, file, last, prev>>

----------------------------------------------------------------------------
(* Bounds of the model *)

\* longest raw listing text given to the rewriter
MaxLen == 6
\* longest stdout / stderr byte string given to run_cmd
MaxBytes == 2
\* longest JSON array given to the License decoder
MaxArr == 2
\* longest outer / inner JSON array given to the platforms decoder
MaxOuter == 3
MaxInner == 2

----------------------------------------------------------------------------
(* Results *)

Ok(v) == [ok |-> TRUE, val |-> v]
Err(e) == [ok |-> FALSE, val |-> e]

Unit == <<>>

\* Seq(S) restricted to the lengths 0..n
SeqUpTo(S, n) == UNION {[1..k -> S] : k \in 0..n}

RECURSIVE Concat(_)
\* the concatenation of a sequence of sequences
Concat(ss) == IF ss = <<>> THEN <<>> ELSE Head(ss) \o Concat(Tail(ss))

----------------------------------------------------------------------------
(* proc.rs *)

BAD == "xFF"

\* String::from_utf8: the bytes themselves when they are valid UTF-8
from_utf8(bytes) ==
  IF \E i \in 1..Len(bytes) : bytes[i] = BAD
    THEN Err(<<"FromUtf8Error">>)
    ELSE Ok(bytes)

\* Command::output(): the process could not be spawned, or it ran to its end
\* with an exit status, a captured stdout and a captured stderr.
Output(spawned, success, stdout, stderr) ==
  [spawned |-> spawned, success |-> success, stdout |-> stdout, stderr |-> stderr]

\* run_cmd up to its last line: the failure, or the captured stdout that the
\* caller's f is then applied to (Ok(f(output.stdout)))
run_cmd(output) ==
  IF ~output.spawned THEN Err(<<"Io">>)
  ELSE IF ~output.success THEN Err(<<"ExitStatus">>)
  ELSE IF output.stderr # <<>>
    THEN IF from_utf8(output.stderr).ok
           THEN Err(<<"Stderr">>)
           ELSE Err(<<"Encoding">>)
  ELSE Ok(output.stdout)

\* run_cmd_stdout with the stderr test of run_cmd left out
run_cmd_stdout_unchecked_stderr(output) ==
  IF ~output.spawned THEN Err(<<"Io">>)
  ELSE IF ~output.success THEN Err(<<"ExitStatus">>)
  ELSE IF from_utf8(output.stdout).ok THEN Ok(output.stdout)
  ELSE Err(<<"Encoding">>)

\* run_cmd(c, String::from_utf8)?.map_err(CommandError::Encoding)
run_cmd_stdout(output) ==
  LET r == run_cmd(output)
  IN  IF ~r.ok THEN r
      ELSE IF from_utf8(r.val).ok THEN Ok(from_utf8(r.val).val)
      ELSE Err(<<"Encoding">>)

----------------------------------------------------------------------------
(* nix.rs: the bulk listing rewriter *)

SP == " "
NL == "\n"
CR == "\r"
TAB == "\t"

FIELD_DELIMITER == <<SP, SP, SP, SP>>

\* char::is_whitespace, over the characters of the model
is_whitespace(c) == c \in {SP, NL, CR, TAB}

RECURSIVE split_terminator(_)
\* str::split_terminator('\n'): the pieces between newlines, without an
\* empty piece after a final newline
split_terminator(s) ==
  IF s = <<>> THEN <<>>
  ELSE IF \E i \in 1..Len(s) : s[i] = NL
    THEN LET i == CHOOSE j \in 1..Len(s) :
                    /\ s[j] = NL
                    /\ \A k \in 1..(j - 1) : s[k] # NL
         IN  <<SubSeq(s, 1, i - 1)>> \o split_terminator(SubSeq(s, i + 1, Len(s)))
    ELSE <<s>>

\* str::lines(): split_terminator('\n') with one trailing '\r' removed from a line
lines(s) ==
  LET pieces == split_terminator(s)
  IN  [i \in 1..Len(pieces) |->
         LET l == pieces[i]
         IN  IF l # <<>> /\ l[Len(l)] = CR THEN SubSeq(l, 1, Len(l) - 1) ELSE l]

\* str::contains("._")
contains_private(line) ==
  \E i \in 1..(Len(line) - 1) : line[i] = "." /\ line[i + 1] = "_"

\* the length of the run of spaces that starts at position i
RECURSIVE space_run(_, _)
space_run(s, i) ==
  IF i <= Len(s) /\ s[i] = SP THEN 1 + space_run(s, i + 1) ELSE 0

RECURSIVE replace_pairs_from(_, _)
replace_pairs_from(s, i) ==
  IF i > Len(s) THEN <<>>
  ELSE IF space_run(s, i) >= 2
    THEN FIELD_DELIMITER \o replace_pairs_from(s, i + 2)
    ELSE <<s[i]>> \o replace_pairs_from(s, i + 1)

\* the regex written as " {2}": every pair of spaces becomes a delimiter
rewrite_attr_line_pairs(line) == replace_pairs_from(line, 1)

RECURSIVE replace_all_from(_, _)
\* Regex::replace_all for " {2,}": leftmost, greedy, non-overlapping matches
replace_all_from(s, i) ==
  IF i > Len(s) THEN <<>>
  ELSE IF space_run(s, i) >= 2
    THEN FIELD_DELIMITER \o replace_all_from(s, i + space_run(s, i))
    ELSE <<s[i]>> \o replace_all_from(s, i + 1)

rewrite_attr_line(line) == replace_all_from(line, 1)

\* trim_end that takes off one trailing whitespace character only
trim_end_once(s) ==
  IF s # <<>> /\ is_whitespace(s[Len(s)]) THEN SubSeq(s, 1, Len(s) - 1) ELSE s

RECURSIVE trim_end(_)
\* str::trim_end
trim_end(s) ==
  IF s # <<>> /\ is_whitespace(s[Len(s)])
    THEN trim_end(SubSeq(s, 1, Len(s) - 1))
    ELSE s

\* the lines rewrite_attr_lines keeps, each rewritten and trimmed
kept_lines(stdout) ==
  LET kept == SelectSeq(lines(stdout), LAMBDA l : ~contains_private(l))
  IN  [i \in 1..Len(kept) |-> trim_end(rewrite_attr_line(kept[i]))]

rewrite_attr_lines(stdout) ==
  LET out == kept_lines(stdout)
  IN  Concat([i \in 1..Len(out) |-> out[i] \o <<NL>>])

----------------------------------------------------------------------------
(* nix.rs: nix_query_all *)

\* the attribute-tree roots queried, in invocation order; "" is the primary
\* listing, made without --attr
query_roots == <<"", "nixpkgs.nodePackages", "nixpkgs.haskellPackages">>

RECURSIVE query_from(_, _, _, _)
\* the invocations from the i-th on, with the text gathered so far; gives the
\* result and the roots invoked
query_from(outputs, i, acc, made) ==
  IF i > Len(query_roots) THEN [res |-> Ok(acc), calls |-> made]
  ELSE LET r == run_cmd_stdout(outputs[i])
       IN  IF ~r.ok
             THEN [res |-> r, calls |-> Append(made, query_roots[i])]
             ELSE query_from(outputs, i + 1, acc \o rewrite_attr_lines(r.val),
                             Append(made, query_roots[i]))

\* nix_query_all with a failed invocation skipped instead of returned
nix_query_all_skipping(outputs) ==
  LET good == SelectSeq(outputs, LAMBDA o : run_cmd_stdout(o).ok)
  IN  [res |-> Ok(Concat([i \in 1..Len(good) |->
                           rewrite_attr_lines(run_cmd_stdout(good[i]).val)])),
       calls |-> query_roots]

\* outputs[i] is what the i-th nix-env invocation produces if it is made
nix_query_all(outputs) == query_from(outputs, 1, <<>>, <<>>)

----------------------------------------------------------------------------
(* The file system under CACHE_PATH *)

NoFile == [exists |-> FALSE, data |-> <<>>]
FileOf(bytes) == [exists |-> TRUE, data |-> bytes]

\* what a file operation can meet: no failure, a refused open / create /
\* remove, or a failure while reading or writing the opened file
Faults == {"none", "denied", "io"}

\* the outcome of an operation: the file afterwards, the Result, the nix-env
\* invocations made (their roots) and the number of bulk listing queries
Outcome(f, res, calls, queries) ==
  [file |-> f, res |-> res, calls |-> calls, queries |-> queries]

\* fs::remove_file
remove_file(f, fault) ==
  IF ~f.exists THEN [file |-> f, res |-> Err(<<"NotFound">>)]
  ELSE IF fault = "denied" THEN [file |-> f, res |-> Err(<<"PermissionDenied">>)]
  ELSE [file |-> NoFile, res |-> Ok(Unit)]

\* File::create(path)?.write_all(bytes)
create_and_write(f, bytes, fault) ==
  IF fault = "denied" THEN [file |-> f, res |-> Err(<<"PermissionDenied">>)]
  ELSE IF fault = "io" THEN [file |-> FileOf(<<>>), res |-> Err(<<"WriteFailed">>)]
  ELSE [file |-> FileOf(bytes), res |-> Ok(Unit)]

\* File::open(path)
open(f, fault) ==
  IF ~f.exists THEN Err(<<"NotFound">>)
  ELSE IF fault = "denied" THEN Err(<<"PermissionDenied">>)
  ELSE Ok(Unit)

IoErr(e) == Err(<<"Io">> \o e)

----------------------------------------------------------------------------
(* cache.rs *)

cache_exists(path, f) == path /\ f.exists

clear_cache(path, f, fault) ==
  IF ~path THEN Outcome(f, Err(<<"NoCachePath">>), <<>>, 0)
  ELSE LET r == remove_file(f, fault)
       IN  IF r.res.ok THEN Outcome(r.file, Ok(Unit), <<>>, 0)
           ELSE IF r.res.val = <<"NotFound">> THEN Outcome(r.file, Ok(Unit), <<>>, 0)
           ELSE Outcome(r.file, IoErr(r.res.val), <<>>, 0)

write_cache(path, f, nix_attrs, fault) ==
  IF ~path THEN Outcome(f, Err(<<"NoCachePath">>), <<>>, 0)
  ELSE LET r == create_and_write(f, nix_attrs, fault)
       IN  IF r.res.ok THEN Outcome(r.file, Ok(Unit), <<>>, 0)
           ELSE Outcome(r.file, IoErr(r.res.val), <<>>, 0)

read_cache(path, f, fault) ==
  IF ~path THEN Outcome(f, Err(<<"NoCachePath">>), <<>>, 0)
  ELSE LET o == open(f, fault)
       IN  IF ~o.ok THEN Outcome(f, IoErr(o.val), <<>>, 0)
           ELSE IF fault = "io" THEN Outcome(f, IoErr(<<"ReadFailed">>), <<>>, 0)
           ELSE IF ~from_utf8(f.data).ok THEN Outcome(f, IoErr(<<"InvalidData">>), <<>>, 0)
           ELSE Outcome(f, Ok(f.data), <<>>, 0)

ensure_cache(path, f, outputs, fault) ==
  IF ~cache_exists(path, f)
    THEN LET q == nix_query_all(outputs)
         IN  IF ~q.res.ok
               THEN Outcome(f, Err(<<"Command">> \o q.res.val), q.calls, 1)
               ELSE LET w == write_cache(path, f, q.res.val, fault)
                    IN  IF ~w.res.ok THEN Outcome(w.file, w.res, q.calls, 1)
                        ELSE Outcome(w.file, Ok(q.res.val), q.calls, 1)
    ELSE read_cache(path, f, fault)

----------------------------------------------------------------------------
(* main.rs: the binary's own cache functions *)

main_clear_cache(path, f, fault) ==
  IF ~path THEN Outcome(f, Err(<<"NoCachePath">>), <<>>, 0)
  ELSE LET r == remove_file(f, fault)
       IN  IF r.res.ok THEN Outcome(r.file, Ok(Unit), <<>>, 0)
           ELSE Outcome(r.file, IoErr(r.res.val), <<>>, 0)

main_write_cache(path, f, nix_attrs, fault) ==
  IF ~path THEN Outcome(f, Err(<<"NoCachePath">>), <<>>, 0)
  ELSE LET r == create_and_write(f, nix_attrs, fault)
       IN  IF r.res.ok THEN Outcome(r.file, Ok(Unit), <<>>, 0)
           ELSE Outcome(r.file, IoErr(r.res.val), <<>>, 0)

\* BufRead::lines(): the pieces between newlines, each without its "\n" or
\* "\r\n"; a final piece that no newline ends keeps a trailing '\r'
buf_lines(s) ==
  LET pieces == split_terminator(s)
      ended(i) == i < Len(pieces) \/ s[Len(s)] = NL
  IN  [i \in 1..Len(pieces) |->
         LET l == pieces[i]
         IN  IF ended(i) /\ l # <<>> /\ l[Len(l)] = CR
               THEN SubSeq(l, 1, Len(l) - 1)
               ELSE l]

\* ret.extend(lines().collect::<Result<_, io::Error>>().map_err(..)) with
\* ret: Vec<String>: the Result is the iterator, its item a String collected
\* from the lines (their concatenation); an Err adds no item.
main_read_cache(path, f, fault) ==
  IF ~path THEN Outcome(f, Err(<<"NoCachePath">>), <<>>, 0)
  ELSE LET o == open(f, fault)
       IN  IF ~o.ok THEN Outcome(f, IoErr(o.val), <<>>, 0)
           ELSE IF fault = "io" \/ ~from_utf8(f.data).ok
             THEN Outcome(f, Ok(<<>>), <<>>, 0)
           ELSE Outcome(f, Ok(<<Concat(buf_lines(f.data))>>), <<>>, 0)

main_ensure_cache(path, f, fault) ==
  IF ~cache_exists(path, f)
    THEN LET w == main_write_cache(path, f, <<>>, fault)
         IN  IF ~w.res.ok THEN w
             ELSE main_read_cache(path, w.file, fault)
    ELSE main_read_cache(path, f, fault)

\* main(): opt.clear_cache selects clear_cache().map_err(MainErr::Cache)?
main(path, f, flag, fault) ==
  IF flag
    THEN LET c == main_clear_cache(path, f, fault)
         IN  IF ~c.res.ok THEN Outcome(c.file, Err(<<"Cache">> \o c.res.val), <<>>, 0)
             ELSE Outcome(c.file, Ok(Unit), <<>>, 0)
    ELSE Outcome(f, Ok(Unit), <<>>, 0)

----------------------------------------------------------------------------
(* The cache layer as a state machine *)

\* what one nix-env invocation can produce in the model
RawListing == <<"a", SP, SP, "b", SP, "c", SP, NL, "x", ".", "_", "y", NL>>
ToolOutputs ==
  { Output(TRUE, TRUE, RawListing, <<>>),
    Output(TRUE, TRUE, <<"a", BAD>>, <<>>),
    Output(TRUE, TRUE, RawListing, <<"w">>),
    Output(TRUE, FALSE, <<>>, <<>>),
    Output(FALSE, FALSE, <<>>, <<>>) }

\* the byte strings given to write_cache, and found in the file at the start
CacheTexts ==
  { <<>>, <<"a", NL, "b", NL>>, <<"a", CR, NL, "b">>, <<BAD>> }

Call(name, arg, fault, o) ==
  [op |-> name, arg |-> arg, fault |-> fault, ok |-> o.res.ok, val |-> o.res.val,
   calls |-> o.calls, queries |-> o.queries, before |-> file]

Start == [op |-> "start", arg |-> <<>>, fault |-> "none", ok |-> TRUE, val |-> <<>>,
          calls |-> <<>>, queries |-> 0, before |-> NoFile]

\* what is kept of the operation before the last one: a write and its text,
\* or that it was no write
Brief(l) ==
  IF l.op \in {"write_cache", "main_write_cache"}
    THEN [op |-> l.op, arg |-> l.arg, ok |-> l.ok]
    ELSE [op |-> "other", arg |-> <<>>, ok |-> TRUE]

Do(name, arg, fault, o) ==
  /\ file' = o.file
  /\ last' = Call(name, arg, fault, o)
  /\ prev' = Brief(last)
  /\ UNCHANGED cache_path

Init ==
  /\ cache_path \in BOOLEAN
  /\ file \in {NoFile} \cup (IF cache_path THEN {FileOf(t) : t \in CacheTexts} ELSE {})
  /\ last = Start
  /\ prev = Brief(Start)

ClearCache ==
  \E fault \in Faults :
    Do("clear_cache", <<>>, fault, clear_cache(cache_path, file, fault))

WriteCache ==
  \E t \in CacheTexts, fault \in Faults :
    Do("write_cache", t, fault, write_cache(cache_path, file, t, fault))

ReadCache ==
  \E fault \in Faults :
    Do("read_cache", <<>>, fault, read_cache(cache_path, file, fault))

\* the first invocation of outputs that fails and its failure; 0 when none does
FirstFailure(outputs) ==
  LET bad == {i \in 1..Len(outputs) : ~run_cmd_stdout(outputs[i]).ok}
  IN  IF bad = {} THEN [failed |-> 0, error |-> "none"]
      ELSE LET i == CHOOSE j \in bad : \A k \in bad : j <= k
           IN  [failed |-> i, error |-> run_cmd_stdout(outputs[i]).val[1]]

EnsureCache ==
  \E outputs \in [1..Len(query_roots) -> ToolOutputs], fault \in Faults :
    Do("ensure_cache", FirstFailure(outputs), fault,
       ensure_cache(cache_path, file, outputs, fault))

MainClearCache ==
  \E fault \in Faults :
    Do("main_clear_cache", <<>>, fault, main_clear_cache(cache_path, file, fault))

MainWriteCache ==
  \E t \in CacheTexts, fault \in Faults :
    Do("main_write_cache", t, fault, main_write_cache(cache_path, file, t, fault))

MainReadCache ==
  \E fault \in Faults :
    Do("main_read_cache", <<>>, fault, main_read_cache(cache_path, file, fault))

MainEnsureCache ==
  \E fault \in Faults :
    Do("main_ensure_cache", <<>>, fault, main_ensure_cache(cache_path, file, fault))

Main ==
  \E flag \in BOOLEAN, fault \in Faults :
    Do("main", <<flag>>, fault, main(cache_path, file, flag, fault))

Next ==
  \/ ClearCache
  \/ WriteCache
  \/ ReadCache
  \/ EnsureCache
  \/ MainClearCache
  \/ MainWriteCache
  \/ MainReadCache
  \/ MainEnsureCache
  \/ Main

Spec == Init /\ [][Next]_vars

----------------------------------------------------------------------------
(* Claims about the cache layer, checked under Spec *)

\* the text an operation returned: main.rs's read_cache returns a Vec<String>
Content(l) ==
  IF l.op \in {"main_read_cache", "main_ensure_cache"} THEN Concat(l.val) ELSE l.val

Missed == ~cache_exists(cache_path, last.before)

\* C1: ensure_cache is read-through. On a miss it makes exactly one bulk
\* listing query and, when that succeeds, writes the listing to the cache file
\* and returns that same text; on a hit it invokes no external tool and
\* returns the file's contents.
C1_EnsureCacheReadThrough ==
  (cache_path /\ last.op \in {"ensure_cache", "main_ensure_cache"}) =>
    IF Missed
      THEN /\ last.queries = 1
           /\ last.ok => /\ file = FileOf(Content(last))
                         /\ last.calls = query_roots
      ELSE /\ last.queries = 0
           /\ last.calls = <<>>
           /\ file = last.before
           /\ last.ok => Content(last) = last.before.data

\* C1 for cache.rs alone
C1_CacheRsEnsureCache ==
  last.op = "ensure_cache" => C1_EnsureCacheReadThrough

\* C2: clear_cache on an absent cache file returns Ok when a cache path is
\* resolvable, and after a successful clear_cache no cache file exists.
C2_ClearCacheAbsentIsOk ==
  last.op \in {"clear_cache", "main_clear_cache"} =>
    /\ (cache_path /\ ~last.before.exists) => last.ok
    /\ last.ok => ~cache_exists(cache_path, file)

\* C2 for cache.rs alone
C2_CacheRsClearCache ==
  last.op = "clear_cache" => C2_ClearCacheAbsentIsOk

WroteThenRead ==
  /\ \/ last.op = "read_cache" /\ prev.op = "write_cache"
     \/ last.op = "main_read_cache" /\ prev.op = "main_write_cache"
  /\ prev.ok
  /\ from_utf8(prev.arg).ok
  /\ last.fault = "none"

\* C3: write_cache(t) followed at once by read_cache returns content
\* byte-identical to the text t, whatever the file held before the write.
C3_CacheRoundTrip ==
  WroteThenRead => last.ok /\ Content(last) = prev.arg

\* C3 for cache.rs alone
C3_CacheRsRoundTrip ==
  last.op = "read_cache" => C3_CacheRoundTrip

\* C4: when an external tool invocation made by ensure_cache on a miss fails,
\* ensure_cache returns that failure, makes no further invocation and leaves
\* the cache file absent and untouched.
C4_ToolFailurePropagates ==
  (last.op = "ensure_cache" /\ Missed /\ last.arg.failed > 0) =>
    /\ ~last.ok
    /\ last.val = <<"Command", last.arg.error>>
    /\ last.calls = SubSeq(query_roots, 1, last.arg.failed)
    /\ file = last.before
    /\ ~file.exists

\* a sub-tree listing fails after the primary listing succeeded
C4_Witness ==
  /\ last.op = "ensure_cache"
  /\ Missed
  /\ cache_path
  /\ last.arg.failed = 2
  /\ last.arg.error = "Stderr"
  /\ Len(last.calls) = 2
  /\ ~file.exists

----------------------------------------------------------------------------
(* The pure functions, each applied to inputs drawn from a bounded set.    *)
(* The cache file plays no part: it stays absent.                          *)

Apply(name, arg, res) ==
  /\ last' = [op |-> name, arg |-> arg, fault |-> "none", ok |-> res.ok,
              val |-> res.val, calls |-> <<>>, queries |-> 0, before |-> NoFile]
  /\ UNCHANGED <<cache_path, file, prev>>

InitPure ==
  /\ cache_path = FALSE
  /\ file = NoFile
  /\ last = Start
  /\ prev = Brief(Start)

----------------------------------------------------------------------------
(* proc.rs as a state machine *)

Bytes == {"a", BAD}

\* what Command::output() can give: no process, or an exit status with the
\* captured stdout and stderr
ProcOutputs ==
  {Output(FALSE, FALSE, <<>>, <<>>)} \cup
  {Output(TRUE, success, out, err) :
     success \in BOOLEAN, out \in SeqUpTo(Bytes, MaxBytes), err \in SeqUpTo(Bytes, MaxBytes)}

\* run_cmd with f the identity: the captured stdout as it is
RunCmd ==
  \E output \in ProcOutputs :
    Apply("run_cmd", output, run_cmd(output))

RunCmdStdout ==
  \E output \in ProcOutputs :
    Apply("run_cmd_stdout", output, run_cmd_stdout(output))

NextProc == RunCmd \/ RunCmdStdout

SpecProc == InitPure /\ [][NextProc]_vars

CommandFailures == {<<"Io">>, <<"ExitStatus">>, <<"Stderr">>, <<"Encoding">>}

Clean(bytes) == \A i \in 1..Len(bytes) : bytes[i] # BAD

\* C5: run_cmd returns the captured stdout only when the process could be
\* invoked, exited successfully and wrote nothing to stderr (and always
\* then, when stdout decodes); non-empty stderr is a failure even on a zero
\* exit status; every failure is Io, ExitStatus, Stderr or Encoding.
C5_RunCmdOutcomes ==
  last.op \in {"run_cmd", "run_cmd_stdout"} =>
    LET o == last.arg
        accepted == o.spawned /\ o.success /\ o.stderr = <<>>
    IN  /\ last.ok => accepted /\ last.val = o.stdout
        /\ (o.spawned /\ o.stderr # <<>>) => ~last.ok
        /\ ~last.ok => last.val \in CommandFailures
        /\ (accepted /\ last.op = "run_cmd") => last.ok
        /\ (accepted /\ last.op = "run_cmd_stdout") => (last.ok <=> Clean(o.stdout))

\* a zero exit status with text on stderr is refused as Stderr
C5_Witness ==
  /\ last.op = "run_cmd_stdout"
  /\ last.arg.spawned /\ last.arg.success
  /\ last.arg.stderr = <<"a">>
  /\ last.arg.stdout = <<"a", "a">>
  /\ ~last.ok /\ last.val = <<"Stderr">>

----------------------------------------------------------------------------
(* The bulk listing rewriter as a state machine *)

Alphabet == {"a", ".", "_", SP, NL, CR}

\* a value waiting to be given to a function
Input(arg) ==
  [op |-> "input", arg |-> arg, fault |-> "none", ok |-> TRUE, val |-> <<>>,
   calls |-> <<>>, queries |-> 0, before |-> NoFile]

InitRewrite ==
  /\ cache_path = FALSE
  /\ file = NoFile
  /\ last \in {Input(stdout) : stdout \in SeqUpTo(Alphabet, MaxLen)}
  /\ prev = Brief(Start)

RewriteAttrLines ==
  /\ last.op = "input"
  /\ Apply("rewrite_attr_lines", last.arg, Ok(rewrite_attr_lines(last.arg)))

\* the rewriter applied to the text it has just produced
RewriteAgain ==
  /\ last.op = "rewrite_attr_lines"
  /\ Apply("rewrite_again", last.val, Ok(rewrite_attr_lines(last.val)))

NextRewrite == RewriteAttrLines \/ RewriteAgain

SpecRewrite == InitRewrite /\ [][NextRewrite]_vars

----------------------------------------------------------------------------
(* Claims about the rewriter, checked under SpecRewrite *)

\* the lines of a rewritten text, each of which a newline ends
OutLines(text) == split_terminator(text)

Terminated(text) == text = <<>> \/ text[Len(text)] = NL

NonSpace(s) == SelectSeq(s, LAMBDA c : ~is_whitespace(c))

\* the attribute-path column: the line up to the first run of two or more
\* spaces that follows a character of the path
AttrColumn(l) ==
  LET ends == {i \in 2..(Len(l) - 1) : l[i - 1] # SP /\ l[i] = SP /\ l[i + 1] = SP}
  IN  IF ends = {} THEN l
      ELSE SubSeq(l, 1, (CHOOSE i \in ends : \A j \in ends : i <= j) - 1)

\* C6: exactly the lines whose attribute-path column contains "._" are
\* dropped; every other line, also one with "._" in a later column only,
\* gives exactly one output line, in input order.
C6_DropsPrivateAttrPaths ==
  last.op = "rewrite_attr_lines" =>
    LET claimed == SelectSeq(lines(last.arg), LAMBDA l : ~contains_private(AttrColumn(l)))
        out == OutLines(last.val)
    IN  /\ Len(out) = Len(claimed)
        /\ \A i \in 1..Len(out) : NonSpace(out[i]) = NonSpace(claimed[i])

\* C7: rewriting a rewritten text gives the same text.
C7_RewriteIdempotent ==
  last.op = "rewrite_again" => last.val = last.arg

\* the text rewritten again holds a delimiter the first pass put in
C7_Witness ==
  /\ last.op = "rewrite_again"
  /\ last.arg = <<"a">> \o FIELD_DELIMITER \o <<"a", NL>>
  /\ last.val = last.arg

\* the line without its trailing whitespace
Body(l) ==
  LET n == CHOOSE k \in 0..Len(l) :
             /\ k = 0 \/ ~is_whitespace(l[k])
             /\ \A j \in (k + 1)..Len(l) : is_whitespace(l[j])
  IN  SubSeq(l, 1, n)

\* position i starts a token of s: a character other than a space, or a
\* maximal run of spaces
TokenStart(s, i) == s[i] # SP \/ i = 1 \/ s[i - 1] # SP

RunLength(s, i) ==
  CHOOSE n \in 1..Len(s) :
    /\ \A k \in i..(i + n - 1) : k <= Len(s) /\ s[k] = SP
    /\ i + n > Len(s) \/ s[i + n] # SP

Token(s, i) == [c |-> s[i], n |-> IF s[i] = SP THEN RunLength(s, i) ELSE 1]

RECURSIVE TokensFrom(_, _)
TokensFrom(s, i) ==
  IF i > Len(s) THEN <<>>
  ELSE IF TokenStart(s, i) THEN <<Token(s, i)>> \o TokensFrom(s, i + 1)
  ELSE TokensFrom(s, i + 1)

\* s as its characters and maximal runs of spaces, in order
Tokens(s) == TokensFrom(s, 1)

\* out is l with every maximal run of two or more spaces made one
\* FIELD_DELIMITER, single spaces kept, and trailing whitespace removed
Delimited(l, out) ==
  LET want == Tokens(Body(l))
  IN  /\ out = <<>> \/ ~is_whitespace(out[Len(out)])
      /\ Tokens(out) =
           [i \in 1..Len(want) |->
              IF want[i].c = SP /\ want[i].n >= 2
                THEN [c |-> SP, n |-> Len(FIELD_DELIMITER)]
                ELSE want[i]]

\* C8: each kept line comes out with its runs of two or more spaces replaced
\* by one FIELD_DELIMITER each, single spaces unchanged, trailing whitespace
\* removed, and one newline after it.
C8_RunsBecomeDelimiters ==
  last.op = "rewrite_attr_lines" =>
    LET kept == SelectSeq(lines(last.arg), LAMBDA l : ~contains_private(l))
        out == OutLines(last.val)
    IN  /\ Terminated(last.val)
        /\ Len(out) = Len(kept)
        /\ \A i \in 1..Len(out) : Delimited(kept[i], out[i])

\* an aligned line with a single space inside a column
C8_Witness ==
  /\ last.op = "rewrite_attr_lines"
  /\ last.arg = <<"a", SP, SP, "a", SP, "a">>
  /\ last.val = <<"a">> \o FIELD_DELIMITER \o <<"a", SP, "a", NL>>

----------------------------------------------------------------------------
(* nix.rs: JSON values and the derived decoders *)

\* a JSON value: its kind k and its payload v (the text of a scalar, the
\* elements of an array, the members of an object as a function of the keys)
JStr(s) == [k |-> "str", v |-> s]
JNum(n) == [k |-> "num", v |-> n]
JBool(b) == [k |-> "bool", v |-> b]
JNull == [k |-> "null", v |-> "null"]
JArr(elems) == [k |-> "arr", v |-> elems]
JObj(members) == [k |-> "obj", v |-> members]

DeErr == Err(<<"De">>)

None == [some |-> FALSE, v |-> ""]
Some(x) == [some |-> TRUE, v |-> x]

\* String: a JSON string only
de_String(j) == IF j.k = "str" THEN Ok(j.v) ELSE DeErr

\* Option<String>: null is None, anything else must be a String
de_Option_String(j) ==
  IF j.k = "null" THEN Ok(None)
  ELSE IF j.k = "str" THEN Ok(Some(j.v))
  ELSE DeErr

de_bool(j) == IF j.k = "bool" THEN Ok(j.v = "true") ELSE DeErr

\* a required String member of an object: a missing one is an error
field_String(j, key) ==
  IF key \in DOMAIN j.v THEN de_String(j.v[key]) ELSE DeErr

\* an Option<String> member: a missing one is None
field_Option_String(j, key) ==
  IF key \in DOMAIN j.v THEN de_Option_String(j.v[key]) ELSE Ok(None)

\* #[serde(default = "true_")] free: bool
field_free(j, key) ==
  IF key \in DOMAIN j.v THEN de_bool(j.v[key]) ELSE Ok(TRUE)

\* #[derive(Deserialize)] struct FullLicense. From an object (visit_map):
\* fullName and shortName are required Strings, spdxId and url default to
\* None, free to true_(), other members are ignored. From an array
\* (visit_seq): the fields by position, all five of them and no more.
de_FullLicense(j) ==
  LET from(full_name, short_name, spdx_id, url, free) ==
        IF full_name.ok /\ short_name.ok /\ spdx_id.ok /\ url.ok /\ free.ok
          THEN Ok([full_name |-> full_name.val, short_name |-> short_name.val,
                   spdx_id |-> spdx_id.val, url |-> url.val, free |-> free.val])
          ELSE DeErr
  IN  IF j.k = "obj"
        THEN from(field_String(j, "fullName"),
                  field_String(j, "shortName"),
                  field_Option_String(j, "spdxId"),
                  field_Option_String(j, "url"),
                  field_free(j, "free"))
      ELSE IF j.k = "arr" /\ Len(j.v) = 5
        THEN from(de_String(j.v[1]), de_String(j.v[2]), de_Option_String(j.v[3]),
                  de_Option_String(j.v[4]), de_bool(j.v[5]))
      ELSE DeErr

\* #[derive(Deserialize)] struct NamedLicense: an object with a String
\* fullName, or an array of exactly that one String
de_NamedLicense(j) ==
  LET from(full_name) ==
        IF full_name.ok THEN Ok([full_name |-> full_name.val]) ELSE DeErr
  IN  IF j.k = "obj" THEN from(field_String(j, "fullName"))
      ELSE IF j.k = "arr" /\ Len(j.v) = 1 THEN from(de_String(j.v[1]))
      ELSE DeErr

\* #[derive(Deserialize)] struct UrlLicense
de_UrlLicense(j) ==
  LET from(url) == IF url.ok THEN Ok([url |-> url.val]) ELSE DeErr
  IN  IF j.k = "obj" THEN from(field_String(j, "url"))
      ELSE IF j.k = "arr" /\ Len(j.v) = 1 THEN from(de_String(j.v[1]))
      ELSE DeErr

\* Vec<FullLicense>: an array whose every element decodes
de_Vec_FullLicense(j) ==
  IF j.k = "arr" /\ \A i \in 1..Len(j.v) : de_FullLicense(j.v[i]).ok
    THEN Ok([i \in 1..Len(j.v) |-> de_FullLicense(j.v[i]).val])
    ELSE DeErr

Variant(name, r) == Ok([variant |-> name, value |-> r.val])

\* #[serde(untagged)] enum License: the variants in declaration order, the
\* first that decodes
de_License(j) ==
  IF de_String(j).ok THEN Variant("Id", de_String(j))
  ELSE IF de_FullLicense(j).ok THEN Variant("Full", de_FullLicense(j))
  ELSE IF de_Vec_FullLicense(j).ok THEN Variant("FullVec", de_Vec_FullLicense(j))
  ELSE IF de_NamedLicense(j).ok THEN Variant("Named", de_NamedLicense(j))
  ELSE IF de_UrlLicense(j).ok THEN Variant("Url", de_UrlLicense(j))
  ELSE DeErr

\* Vec<String>
de_Vec_String(j) ==
  IF j.k = "arr" /\ \A i \in 1..Len(j.v) : de_String(j.v[i]).ok
    THEN Ok([i \in 1..Len(j.v) |-> j.v[i].v])
    ELSE DeErr

\* Vec<Vec<String>>
de_Vec_Vec_String(j) ==
  IF j.k = "arr" /\ \A i \in 1..Len(j.v) : de_Vec_String(j.v[i]).ok
    THEN Ok([i \in 1..Len(j.v) |-> de_Vec_String(j.v[i]).val])
    ELSE DeErr

\* the flattening that keeps the first inner list only
flatten_first(vs) == IF vs = <<>> THEN <<>> ELSE vs[1]

RECURSIVE flatten(_)
\* vs.iter().flatten().cloned().collect()
flatten(vs) ==
  IF vs = <<>> THEN <<>>
  ELSE flatten(SubSeq(vs, 1, Len(vs) - 1)) \o vs[Len(vs)]

\* #[serde(untagged)] enum Platforms and From<Platforms> for Vec<String>
deserialize_platforms(j) ==
  IF de_Vec_String(j).ok THEN de_Vec_String(j)
  ELSE IF de_Vec_Vec_String(j).ok THEN Ok(flatten(de_Vec_Vec_String(j).val))
  ELSE DeErr

----------------------------------------------------------------------------
(* The License decoder as a state machine *)

Absent == [k |-> "absent", v |-> ""]

\* the object with the members of a record that are not Absent
ObjectOf(r) == JObj([key \in {x \in DOMAIN r : r[x] # Absent} |-> r[key]])

Text == JStr("t")

\* the members an object of the model can have, Absent for none
LicenseMembers ==
  [fullName : {Absent, Text, JNum("1")},
   shortName : {Absent, Text, JNum("1")},
   spdxId : {Absent, Text, JNull, JNum("1")},
   url : {Absent, Text, JNull},
   free : {Absent, JBool("true"), JBool("false"), Text}]

LicenseScalars == {Text, JStr(""), JNum("1"), JBool("true"), JNull}

\* what the arrays of the model hold: the scalars, and the objects with any
\* of fullName, shortName and url
LicenseChoices == 1..12
LicenseElement(n) ==
  IF n = 1 THEN Text
  ELSE IF n = 2 THEN JNum("1")
  ELSE IF n = 3 THEN JBool("true")
  ELSE IF n = 4 THEN JNull
  ELSE ObjectOf([fullName |-> IF (n - 5) % 2 = 1 THEN Text ELSE Absent,
                 shortName |-> IF ((n - 5) \div 2) % 2 = 1 THEN Text ELSE Absent,
                 url |-> IF ((n - 5) \div 4) % 2 = 1 THEN Text ELSE Absent])

ArrayOf(choice, Element(_)) == JArr([i \in 1..Len(choice) |-> Element(choice[i])])

InitLicense ==
  /\ cache_path = FALSE
  /\ file = NoFile
  /\ \/ \E j \in LicenseScalars : last = Input(j)
     \/ \E r \in LicenseMembers : last = Input(ObjectOf(r))
     \/ \E choice \in SeqUpTo(LicenseChoices, MaxArr) :
          last = Input(ArrayOf(choice, LicenseElement))
  /\ prev = Brief(Start)

DecodeLicense ==
  /\ last.op = "input"
  /\ Apply("de_License", last.arg, de_License(last.arg))

NextLicense == DecodeLicense

SpecLicense == InitLicense /\ [][NextLicense]_vars

----------------------------------------------------------------------------
(* Claims about the License decoder, checked under SpecLicense *)

Has(j, key) == key \in DOMAIN j.v

HasString(j, key) == Has(j, key) /\ j.v[key].k = "str"

\* an object whose optional members, when present, have the JSON types the
\* FullRecord shape gives them
OptionalsTyped(j) ==
  /\ Has(j, "spdxId") => j.v["spdxId"].k \in {"str", "null"}
  /\ Has(j, "url") => j.v["url"].k \in {"str", "null"}
  /\ Has(j, "free") => j.v["free"].k = "bool"

\* an object with fullName and shortName
FullShaped(j) ==
  j.k = "obj" /\ HasString(j, "fullName") /\ HasString(j, "shortName") /\ OptionalsTyped(j)

\* the shape the claim gives a JSON value: the variant's name, "none" for a
\* value of no known shape, "open" for an object the claim leaves open (a
\* member of a JSON type its shape does not have)
ShapeOf(j) ==
  IF j.k = "str" THEN "Id"
  ELSE IF j.k = "arr"
    THEN IF \A i \in 1..Len(j.v) : FullShaped(j.v[i]) THEN "FullVec" ELSE "none"
  ELSE IF j.k # "obj" THEN "none"
  ELSE IF \E key \in {"fullName", "shortName"} : Has(j, key) /\ ~HasString(j, key)
    THEN "open"
  ELSE IF Has(j, "fullName") /\ Has(j, "shortName")
    THEN IF OptionalsTyped(j) THEN "Full" ELSE "open"
  ELSE IF Has(j, "fullName") THEN "Named"
  ELSE IF ~Has(j, "url") THEN "none"
  ELSE IF HasString(j, "url") THEN "Url"
  ELSE "open"

\* C9: the License variant is the first structural match in the order
\* PlainId, FullRecord, FullRecordList, NamedOnly, UrlOnly, and a value of
\* none of these shapes fails to decode.
C9_LicenseVariantByShape ==
  (last.op = "de_License" /\ ShapeOf(last.arg) # "open") =>
    IF ShapeOf(last.arg) = "none"
      THEN ~last.ok
      ELSE last.ok /\ last.val.variant = ShapeOf(last.arg)

\* C9 for strings and objects alone
C9_StringsAndObjects ==
  (last.op = "de_License" /\ last.arg.k # "arr") => C9_LicenseVariantByShape

----------------------------------------------------------------------------
(* The platforms decoder as a state machine *)

PlatformNames == {"linux", "darwin"}

\* an inner list: a JSON array of platform names
InnerLists == SeqUpTo(PlatformNames, MaxInner)

\* an element of the outer array: a name, an inner list of names, a number
PlatformChoices ==
  {<<"name", <<n>>>> : n \in PlatformNames}
    \cup {<<"list", l>> : l \in InnerLists}
    \cup {<<"number", <<>>>>}

PlatformElement(c) ==
  IF c[1] = "name" THEN JStr(c[2][1])
  ELSE IF c[1] = "list" THEN JArr([i \in 1..Len(c[2]) |-> JStr(c[2][i])])
  ELSE JNum("1")

InitPlatforms ==
  /\ cache_path = FALSE
  /\ file = NoFile
  /\ \/ \E j \in {Text, JNull} : last = Input(j)
     \/ \E choice \in SeqUpTo(PlatformChoices, MaxOuter) :
          last = Input(ArrayOf(choice, PlatformElement))
  /\ prev = Brief(Start)

DeserializePlatforms ==
  /\ last.op = "input"
  /\ Apply("deserialize_platforms", last.arg, deserialize_platforms(last.arg))

NextPlatforms == DeserializePlatforms

SpecPlatforms == InitPlatforms /\ [][NextPlatforms]_vars

\* a JSON array of strings
FlatList(j) == j.k = "arr" /\ \A i \in 1..Len(j.v) : j.v[i].k = "str"

\* a JSON array of arrays of strings
ListOfLists(j) == j.k = "arr" /\ \A i \in 1..Len(j.v) : FlatList(j.v[i])

\* the strings of a flat list
Strings(j) == [i \in 1..Len(j.v) |-> j.v[i].v]

\* the elements of the inner lists, supplied as one flat JSON list
PreFlattened(j) == JArr(Concat([i \in 1..Len(j.v) |-> j.v[i].v]))

\* C10: a list of lists of strings decodes to the concatenation of the inner
\* lists in encounter order, which is what the same elements supplied as a
\* flat list decode to; a flat list decodes to itself; what is decoded is
\* always a flat sequence of strings.
C10_PlatformsFlattened ==
  last.op = "deserialize_platforms" =>
    /\ ListOfLists(last.arg) =>
         /\ last.ok
         /\ last.val = Strings(PreFlattened(last.arg))
         /\ deserialize_platforms(PreFlattened(last.arg)) = Ok(last.val)
    /\ FlatList(last.arg) => last.ok /\ last.val = Strings(last.arg)
    /\ last.ok => \A i \in 1..Len(last.val) : last.val[i] \in PlatformNames

\* four platforms in two inner lists
C10_Witness ==
  /\ last.op = "deserialize_platforms"
  /\ ListOfLists(last.arg)
  /\ [i \in 1..Len(last.arg.v) |-> Strings(last.arg.v[i])]
       = <<(<<"linux", "darwin">>), (<<"darwin", "linux">>)>>
  /\ last.val = <<"linux", "darwin", "darwin", "linux">>

----------------------------------------------------------------------------
(* nix.rs: the decoders of Maintainer, NixPath, NixMeta, NixInfo and        *)
(* AllNixInfo. The model gives these structs JSON objects only.            *)

\* the numerals of the model that are below zero
NegativeNumerals == {"-1"}

\* usize: a JSON number that is not negative
de_usize(j) == IF j.k = "num" /\ j.v \notin NegativeNumerals THEN Ok(j.v) ELSE DeErr

\* isize: a JSON number
de_isize(j) == IF j.k = "num" THEN Ok(j.v) ELSE DeErr

\* Option<T> around the result r of decoding a value that is not null
Optional(j, r) ==
  IF j.k = "null" THEN Ok(None)
  ELSE IF r.ok THEN Ok(Some(r.val))
  ELSE DeErr

\* #[derive(Deserialize)] struct Key: longkeyid and fingerprint, both required
de_Key(j) ==
  IF j.k = "obj" /\ field_String(j, "longkeyid").ok /\ field_String(j, "fingerprint").ok
    THEN Ok([longkeyid |-> field_String(j, "longkeyid").val,
             fingerprint |-> field_String(j, "fingerprint").val])
    ELSE DeErr

\* Vec<Key>
de_Vec_Key(j) ==
  IF j.k = "arr" /\ \A i \in 1..Len(j.v) : de_Key(j.v[i]).ok
    THEN Ok([i \in 1..Len(j.v) |-> de_Key(j.v[i]).val])
    ELSE DeErr

\* #[derive(Deserialize)] struct MaintainerInfo: email is a required String,
\* name, github and githubId default to None, keys to Vec::new()
de_MaintainerInfo(j) ==
  IF j.k # "obj" THEN DeErr
  ELSE LET name == field_Option_String(j, "name")
           email == field_String(j, "email")
           github == field_Option_String(j, "github")
           github_id == IF "githubId" \in DOMAIN j.v
                          THEN Optional(j.v["githubId"], de_usize(j.v["githubId"]))
                          ELSE Ok(None)
           keys == IF "keys" \in DOMAIN j.v THEN de_Vec_Key(j.v["keys"]) ELSE Ok(<<>>)
       IN  IF name.ok /\ email.ok /\ github.ok /\ github_id.ok /\ keys.ok
             THEN Ok([name |-> name.val, email |-> email.val, github |-> github.val,
                      github_id |-> github_id.val, keys |-> keys.val])
             ELSE DeErr

\* #[serde(untagged)] enum Maintainer: Name(String), then Info(MaintainerInfo)
de_Maintainer(j) ==
  IF de_String(j).ok THEN Variant("Name", de_String(j))
  ELSE IF de_MaintainerInfo(j).ok THEN Variant("Info", de_MaintainerInfo(j))
  ELSE DeErr

\* Vec<Maintainer>
de_Vec_Maintainer(j) ==
  IF j.k = "arr" /\ \A i \in 1..Len(j.v) : de_Maintainer(j.v[i]).ok
    THEN Ok([i \in 1..Len(j.v) |-> de_Maintainer(j.v[i]).val])
    ELSE DeErr

\* s.split(':') for the position strings of the model
split_colon(s) ==
  IF s = "p:7" THEN <<"p", "7">>
  ELSE IF s = "p:7:9" THEN <<"p", "7", "9">>
  ELSE IF s = "p:x" THEN <<"p", "x">>
  ELSE <<s>>

\* str::parse::<usize> for the pieces of the model
parse_usize(s) == IF s \in {"7", "9"} THEN Ok(s) ELSE Err(<<"ParseIntError">>)

\* NixPath::from_str: the first piece is the path, the second the line
NixPath_from_str(s) ==
  LET split == split_colon(s)
  IN  IF Len(split) < 2 THEN Err(<<"BadSplit">>)
      ELSE IF ~parse_usize(split[2]).ok THEN Err(<<"BadSplit">>)
      ELSE Ok([path |-> split[1], line |-> parse_usize(split[2]).val])

\* #[serde(try_from = "String")] struct NixPath
de_NixPath(j) ==
  IF j.k = "str" /\ NixPath_from_str(j.v).ok THEN Ok(NixPath_from_str(j.v).val)
  ELSE DeErr

\* NixMeta decoded with `available` taken from NixMeta::default() when the
\* member is missing, as the container's #[serde(default)] alone would do
default_available_derived(j) ==
  IF "available" \in DOMAIN j.v THEN de_bool(j.v["available"]) ELSE Ok(FALSE)

\* #[serde(default = "true_")] available: bool
default_available(j) ==
  IF "available" \in DOMAIN j.v THEN de_bool(j.v["available"]) ELSE Ok(TRUE)

\* #[derive(Deserialize, Default)] #[serde(default)] struct NixMeta: a
\* missing member is the field of NixMeta::default(), available is true_()
de_NixMeta(j) ==
  IF j.k # "obj" THEN DeErr
  ELSE LET has(key) == key \in DOMAIN j.v
           available == default_available(j)
           broken == IF has("broken") THEN de_bool(j.v["broken"]) ELSE Ok(FALSE)
           description == field_Option_String(j, "description")
           long_description == field_Option_String(j, "longDescription")
           homepage == field_Option_String(j, "homepage")
           license == IF has("license")
                        THEN Optional(j.v["license"], de_License(j.v["license"]))
                        ELSE Ok(None)
           name == field_Option_String(j, "name")
           outputs_to_install == IF has("outputsToInstall")
                                   THEN de_Vec_String(j.v["outputsToInstall"])
                                   ELSE Ok(<<>>)
           platforms == IF has("platforms")
                          THEN deserialize_platforms(j.v["platforms"])
                          ELSE Ok(<<>>)
           position == IF has("position")
                         THEN Optional(j.v["position"], de_NixPath(j.v["position"]))
                         ELSE Ok(None)
           priority == IF has("priority")
                         THEN Optional(j.v["priority"], de_isize(j.v["priority"]))
                         ELSE Ok(None)
           maintainers == IF has("maintainers")
                            THEN de_Vec_Maintainer(j.v["maintainers"])
                            ELSE Ok(<<>>)
       IN  IF /\ available.ok /\ broken.ok /\ description.ok /\ long_description.ok
              /\ homepage.ok /\ license.ok /\ name.ok /\ outputs_to_install.ok
              /\ platforms.ok /\ position.ok /\ priority.ok /\ maintainers.ok
             THEN Ok([available |-> available.val, broken |-> broken.val,
                      description |-> description.val,
                      long_description |-> long_description.val,
                      homepage |-> homepage.val, license |-> license.val,
                      name |-> name.val,
                      outputs_to_install |-> outputs_to_install.val,
                      platforms |-> platforms.val, position |-> position.val,
                      priority |-> priority.val, maintainers |-> maintainers.val])
             ELSE DeErr

\* #[derive(Deserialize)] struct NixInfo: name, pname, version, system and meta
\* are required, attr is an Option
de_NixInfo(j) ==
  IF j.k # "obj" THEN DeErr
  ELSE LET name == field_String(j, "name")
           pname == field_String(j, "pname")
           version == field_String(j, "version")
           system == field_String(j, "system")
           meta == IF "meta" \in DOMAIN j.v THEN de_NixMeta(j.v["meta"]) ELSE DeErr
           attr == field_Option_String(j, "attr")
       IN  IF name.ok /\ pname.ok /\ version.ok /\ system.ok /\ meta.ok /\ attr.ok
             THEN Ok([name |-> name.val, pname |-> pname.val, version |-> version.val,
                      system |-> system.val, meta |-> meta.val, attr |-> attr.val])
             ELSE DeErr

\* #[serde(transparent)] struct AllNixInfo: HashMap<String, NixInfo>, an
\* object whose every member decodes
de_AllNixInfo(j) ==
  IF j.k = "obj" /\ \A key \in DOMAIN j.v : de_NixInfo(j.v[key]).ok
    THEN Ok([attrs |-> [key \in DOMAIN j.v |-> de_NixInfo(j.v[key]).val]])
    ELSE DeErr

----------------------------------------------------------------------------
(* nix.rs: nix_query. The text of the tool is a sequence of lexical atoms:  *)
(* the punctuation of JSON, the quote, and one atom for the content of a    *)
(* string, a numeral or a keyword.                                          *)

Quote == "\""

Numerals == {"1"} \cup NegativeNumerals

Syntax == [ok |-> FALSE, val |-> JNull, next |-> 0]
Parsed(v, n) == [ok |-> TRUE, val |-> v, next |-> n]

\* a string literal that opens at t[i]
parse_string(t, i) ==
  IF i + 1 <= Len(t) /\ t[i + 1] = Quote THEN Parsed(JStr(""), i + 2)
  ELSE IF i + 2 <= Len(t) /\ t[i + 2] = Quote THEN Parsed(JStr(t[i + 1]), i + 3)
  ELSE Syntax

RECURSIVE parse_value(_, _), parse_members(_, _, _), parse_elements(_, _, _)
\* the JSON value that starts at t[i], and the position after it
parse_value(t, i) ==
  IF i > Len(t) THEN Syntax
  ELSE IF t[i] = Quote THEN parse_string(t, i)
  ELSE IF t[i] = "{"
    THEN IF i + 1 <= Len(t) /\ t[i + 1] = "}"
           THEN Parsed(JObj(<<>>), i + 2)
           ELSE parse_members(t, i + 1, <<>>)
  ELSE IF t[i] = "["
    THEN IF i + 1 <= Len(t) /\ t[i + 1] = "]"
           THEN Parsed(JArr(<<>>), i + 2)
           ELSE parse_elements(t, i + 1, <<>>)
  ELSE IF t[i] \in {"true", "false"} THEN Parsed(JBool(t[i]), i + 1)
  ELSE IF t[i] = "null" THEN Parsed(JNull, i + 1)
  ELSE IF t[i] \in Numerals THEN Parsed(JNum(t[i]), i + 1)
  ELSE Syntax

\* the members of an object from t[i] on: "key" : value, then , or }
parse_members(t, i, acc) ==
  IF i > Len(t) \/ t[i] # Quote THEN Syntax
  ELSE LET key == parse_string(t, i)
       IN  IF ~key.ok \/ key.next > Len(t) \/ t[key.next] # ":" THEN Syntax
           ELSE LET value == parse_value(t, key.next + 1)
                    members == (key.val.v :> value.val) @@ acc
                IN  IF ~value.ok \/ value.next > Len(t) THEN Syntax
                    ELSE IF t[value.next] = "," THEN parse_members(t, value.next + 1, members)
                    ELSE IF t[value.next] = "}" THEN Parsed(JObj(members), value.next + 1)
                    ELSE Syntax

\* the elements of an array from t[i] on: value, then , or ]
parse_elements(t, i, acc) ==
  LET value == parse_value(t, i)
  IN  IF ~value.ok \/ value.next > Len(t) THEN Syntax
      ELSE IF t[value.next] = "," THEN parse_elements(t, value.next + 1, Append(acc, value.val))
      ELSE IF t[value.next] = "]" THEN Parsed(JArr(Append(acc, value.val)), value.next + 1)
      ELSE Syntax

\* serde_json::from_str up to the typed decoding: one JSON value and nothing
\* after it
from_str(t) ==
  LET value == parse_value(t, 1)
  IN  IF value.ok /\ value.next = Len(t) + 1 THEN Ok(value.val) ELSE DeErr

\* serde_json::from_str::<AllNixInfo>
from_str_AllNixInfo(t) ==
  IF from_str(t).ok THEN de_AllNixInfo(from_str(t).val) ELSE DeErr

\* nix_query that hands back the entry as it was decoded
nix_query_unlabelled(output, first) ==
  LET json == run_cmd_stdout(output)
      all == from_str_AllNixInfo(json.val)
  IN  IF ~json.ok THEN Err(<<"Command">> \o json.val)
      ELSE IF ~all.ok THEN Err(<<"Command">> \o all.val)
      ELSE IF DOMAIN all.val.attrs = {} THEN Err(<<"Empty">>)
      ELSE Ok(all.val.attrs[first])

\* nix_query: the failure of the command or of the decoding wrapped in
\* NixQueryError::Command, Empty for a map without entries, else the entry
\* the HashMap's iterator gives first (the key `first`) with attr set to its key
nix_query(output, first) ==
  LET json == run_cmd_stdout(output)
      all == from_str_AllNixInfo(json.val)
  IN  IF ~json.ok THEN Err(<<"Command">> \o json.val)
      ELSE IF ~all.ok THEN Err(<<"Command">> \o all.val)
      ELSE IF DOMAIN all.val.attrs = {} THEN Err(<<"Empty">>)
      ELSE Ok([all.val.attrs[first] EXCEPT !.attr = Some(first)])

----------------------------------------------------------------------------
(* nix_query and the AllNixInfo decoder as a state machine *)

\* how many members the meta object of an entry has at most
MaxPresent == 2

\* the object with the members of a record whose kind is not "absent"
ObjectWith(r) == JObj([key \in {x \in DOMAIN r : r[x].k # "absent"} |-> r[key]])

RECURSIVE to_text(_), members_text(_, _), elements_text(_, _)
\* the text the tool writes for a JSON value
to_text(j) ==
  IF j.k = "str" THEN IF j.v = "" THEN <<Quote, Quote>> ELSE <<Quote, j.v, Quote>>
  ELSE IF j.k \in {"num", "bool", "null"} THEN <<j.v>>
  ELSE IF j.k = "arr" THEN <<"[">> \o elements_text(j.v, 1) \o <<"]">>
  ELSE <<"{">> \o members_text(j.v, DOMAIN j.v) \o <<"}">>

members_text(f, keys) ==
  IF keys = {} THEN <<>>
  ELSE LET key == CHOOSE x \in keys : TRUE
       IN  <<Quote, key, Quote, ":">> \o to_text(f[key])
             \o (IF keys = {key} THEN <<>> ELSE <<",">>)
             \o members_text(f, keys \ {key})

elements_text(es, i) ==
  IF i > Len(es) THEN <<>>
  ELSE to_text(es[i]) \o (IF i = Len(es) THEN <<>> ELSE <<",">>) \o elements_text(es, i + 1)

MetaKeys ==
  {"available", "broken", "description", "longDescription", "homepage", "license",
   "name", "outputsToInstall", "platforms", "position", "priority", "maintainers"}

\* per member of meta: a value of its type, a second one, and one of a wrong type
MetaChoices == 1..3

MetaMember(key, c) ==
  IF key = "available" THEN IF c = 1 THEN JBool("false") ELSE IF c = 2 THEN JBool("true") ELSE Text
  ELSE IF key = "broken" THEN IF c = 1 THEN JBool("true") ELSE IF c = 2 THEN JBool("false") ELSE JNull
  ELSE IF key \in {"description", "homepage", "name"}
    THEN IF c = 1 THEN Text ELSE IF c = 2 THEN JNull ELSE JNum("1")
  ELSE IF key = "longDescription"
    THEN IF c = 1 THEN Text ELSE IF c = 2 THEN JStr("") ELSE JBool("true")
  ELSE IF key = "license"
    THEN IF c = 1 THEN Text
         ELSE IF c = 2 THEN JObj([fullName |-> Text, shortName |-> Text])
         ELSE JNum("1")
  ELSE IF key = "outputsToInstall"
    THEN IF c = 1 THEN JArr(<<Text>>) ELSE IF c = 2 THEN JArr(<<>>) ELSE Text
  ELSE IF key = "platforms"
    THEN IF c = 1 THEN JArr(<<Text>>)
         ELSE IF c = 2 THEN JArr(<<JArr(<<Text>>), JArr(<<Text>>)>>)
         ELSE JNum("1")
  ELSE IF key = "position"
    THEN IF c = 1 THEN JStr("p:7") ELSE IF c = 2 THEN JNull ELSE JStr("p")
  ELSE IF key = "priority"
    THEN IF c = 1 THEN JNum("1") ELSE IF c = 2 THEN JNum("-1") ELSE Text
  ELSE IF c = 1 THEN JArr(<<Text>>)
       ELSE IF c = 2 THEN JArr(<<JObj([email |-> Text])>>)
       ELSE JArr(<<JObj([name |-> Text])>>)

\* the meta objects of the model: at most MaxPresent members
MetaPicks ==
  UNION {[present -> MetaChoices] :
           present \in {S \in SUBSET MetaKeys : Cardinality(S) <= MaxPresent}}

MetaOf(pick) == JObj([key \in DOMAIN pick |-> MetaMember(key, pick[key])])

PackageShapes == 1..4

\* an entry of the tool's object: all its members, or one without pname, or
\* one with an attr member, or one without meta
PackageOf(shape, pick) ==
  ObjectWith([name |-> JStr("a-1.0"),
              pname |-> IF shape = 2 THEN Absent ELSE JStr("a"),
              version |-> JStr("1.0"),
              system |-> JStr("x86_64-linux"),
              attr |-> IF shape = 3 THEN Text ELSE Absent,
              meta |-> IF shape = 4 THEN Absent ELSE MetaOf(pick)])

OtherPackage ==
  JObj([name |-> JStr("b-2.0"), pname |-> JStr("b"), version |-> JStr("2.0"),
        system |-> JStr("x86_64-linux"), meta |-> JObj(<<>>)])

\* the texts that are not one JSON value, or not an object of entries
OddTexts ==
  {<<>>, <<"{">>, <<"{", "}", "}">>, <<"[", "]">>, <<Quote, "t", Quote>>,
   <<"{", Quote, "pkgs.a", Quote, ":", "1", "}">>, <<"a", BAD>>}

EmptyObject == <<"{", "}">>

InitNix ==
  /\ cache_path = FALSE
  /\ file = NoFile
  /\ \/ \E text \in OddTexts \cup {EmptyObject} :
          last = Input(Output(TRUE, TRUE, text, <<>>))
     \/ \E success \in BOOLEAN, err \in SeqUpTo(Bytes, 1) :
          last = Input(Output(TRUE, success, EmptyObject, err))
     \/ last = Input(Output(FALSE, FALSE, <<>>, <<>>))
     \/ \E shape \in PackageShapes, pick \in MetaPicks, entries \in 1..2 :
          last = Input(Output(TRUE, TRUE,
                   to_text(JObj(IF entries = 1
                     THEN [key \in {"pkgs.a"} |-> PackageOf(shape, pick)]
                     ELSE [key \in {"pkgs.a", "pkgs.b"} |->
                             IF key = "pkgs.a" THEN PackageOf(shape, pick)
                             ELSE OtherPackage])),
                   <<>>))
  /\ prev = Brief(Start)

\* the keys the HashMap's iterator can give first
FirstKeys(output) ==
  LET json == run_cmd_stdout(output)
      all == from_str_AllNixInfo(json.val)
  IN  IF json.ok /\ all.ok /\ DOMAIN all.val.attrs # {}
        THEN DOMAIN all.val.attrs
        ELSE {"pkgs.a"}

NixQuery ==
  /\ last.op = "input"
  /\ \E first \in FirstKeys(last.arg) :
       Apply("nix_query", last.arg, nix_query(last.arg, first))

FromStrAllNixInfo ==
  /\ last.op = "input"
  /\ last.arg.spawned /\ last.arg.success /\ last.arg.stderr = <<>>
  /\ Clean(last.arg.stdout)
  /\ Apply("from_str", last.arg.stdout, from_str_AllNixInfo(last.arg.stdout))

NextNix == NixQuery \/ FromStrAllNixInfo

SpecNix == InitNix /\ [][NextNix]_vars

----------------------------------------------------------------------------
(* Claims about nix_query and the decoder, checked under SpecNix *)

Accepted(o) == o.spawned /\ o.success /\ o.stderr = <<>> /\ Clean(o.stdout)

\* C11: nix_query on the well-formed output {} fails with Empty, and with
\* Empty on no other output; malformed output fails with Command(De) and a
\* failed command with Command(Io, ExitStatus, Stderr or Encoding); when the
\* object has entries, the record returned is one of them with attr set to
\* its key.
C11_EmptyIsDistinct ==
  last.op = "nix_query" =>
    LET o == last.arg
        doc == from_str(o.stdout)
    IN  /\ (Accepted(o) /\ o.stdout = EmptyObject) =>
             ~last.ok /\ last.val = <<"Empty">>
        /\ (~last.ok /\ last.val = <<"Empty">>) =>
             Accepted(o) /\ o.stdout = EmptyObject
        /\ ~Accepted(o) =>
             /\ ~last.ok /\ Len(last.val) = 2 /\ last.val[1] = "Command"
             /\ <<last.val[2]>> \in CommandFailures
        /\ (Accepted(o) /\ ~doc.ok) => ~last.ok /\ last.val = <<"Command", "De">>
        /\ last.ok =>
             /\ Accepted(o) /\ doc.ok /\ doc.val.k = "obj"
             /\ last.val.attr.some
             /\ last.val.attr.v \in DOMAIN doc.val.v
             /\ last.val.name = doc.val.v[last.val.attr.v].v["name"].v
             /\ last.val.pname = doc.val.v[last.val.attr.v].v["pname"].v

\* the output {} of a command that succeeded is answered with Empty
C11_Witness ==
  /\ last.op = "nix_query"
  /\ Accepted(last.arg) /\ last.arg.stdout = EmptyObject
  /\ ~last.ok /\ last.val = <<"Empty">>

\* an object of two entries is answered with the second one, attr its key
C11_EntryReturned ==
  /\ last.op = "nix_query"
  /\ last.ok /\ last.val.attr.some /\ last.val.attr.v = "pkgs.b"
  /\ last.val.name = "b-2.0"

\* the four required strings and a meta object whose members, if any, are
\* a boolean `broken`
Plain(package) ==
  /\ package.k = "obj"
  /\ \A key \in {"name", "pname", "version", "system"} :
       key \in DOMAIN package.v /\ package.v[key].k = "str"
  /\ "attr" \notin DOMAIN package.v
  /\ "meta" \in DOMAIN package.v /\ package.v["meta"].k = "obj"
  /\ \A key \in DOMAIN package.v["meta"].v :
       key = "broken" /\ package.v["meta"].v[key].k = "bool"

\* the defaults of the members a meta object leaves out, and the members it
\* has as they are given
DefaultsOf(package, info) ==
  LET meta == package.v["meta"].v
      missing(key) == key \notin DOMAIN meta
      given(key, kind) == key \in DOMAIN meta /\ meta[key].k = kind
  IN  /\ missing("available") => info.meta.available = TRUE
      /\ missing("broken") => info.meta.broken = FALSE
      /\ missing("outputsToInstall") => Len(info.meta.outputs_to_install) = 0
      /\ missing("platforms") => Len(info.meta.platforms) = 0
      /\ missing("maintainers") => Len(info.meta.maintainers) = 0
      /\ missing("description") => ~info.meta.description.some
      /\ missing("longDescription") => ~info.meta.long_description.some
      /\ missing("homepage") => ~info.meta.homepage.some
      /\ missing("license") => ~info.meta.license.some
      /\ missing("name") => ~info.meta.name.some
      /\ missing("position") => ~info.meta.position.some
      /\ missing("priority") => ~info.meta.priority.some
      /\ "attr" \notin DOMAIN package.v => ~info.attr.some
      /\ given("available", "bool") =>
           info.meta.available = (meta["available"].v = "true")
      /\ given("broken", "bool") => info.meta.broken = (meta["broken"].v = "true")
      /\ \A key \in {"description", "longDescription", "homepage", "name"} :
           given(key, "str") =>
             LET field == IF key = "description" THEN info.meta.description
                          ELSE IF key = "longDescription" THEN info.meta.long_description
                          ELSE IF key = "homepage" THEN info.meta.homepage
                          ELSE info.meta.name
             IN  field.some /\ field.v = meta[key].v
      /\ given("priority", "num") =>
           info.meta.priority.some /\ info.meta.priority.v = meta["priority"].v
      /\ given("outputsToInstall", "arr") =>
           Len(info.meta.outputs_to_install) = Len(meta["outputsToInstall"].v)
      /\ given("maintainers", "arr") =>
           Len(info.meta.maintainers) = Len(meta["maintainers"].v)

\* C12: decoding an object of packages whose meta leaves members out gives
\* each record the defaults for them: available true, broken false, empty
\* outputs_to_install, platforms and maintainers, None for the optional
\* scalars, and attr None when the package has no attr member; a member that
\* is given stays as given. Packages with the four required strings and a
\* meta that holds at most a boolean `broken` always decode.
C12_MissingFieldsDefault ==
  last.op = "from_str" =>
    LET doc == from_str(last.arg)
    IN  /\ last.ok =>
             /\ doc.ok /\ doc.val.k = "obj"
             /\ DOMAIN last.val.attrs = DOMAIN doc.val.v
             /\ \A key \in DOMAIN doc.val.v :
                  DefaultsOf(doc.val.v[key], last.val.attrs[key])
        /\ (doc.ok /\ doc.val.k = "obj" /\ \A key \in DOMAIN doc.val.v : Plain(doc.val.v[key]))
             => last.ok

\* the package of the scenario: meta {"broken": true} decodes to broken,
\* available, no maintainers, no platforms and no attr
C12_Witness ==
  /\ last.op = "from_str"
  /\ last.arg = to_text(JObj([key \in {"pkgs.a"} |->
                   JObj([name |-> JStr("a-1.0"), pname |-> JStr("a"),
                         version |-> JStr("1.0"), system |-> JStr("x86_64-linux"),
                         meta |-> JObj([broken |-> JBool("true")])])]))
  /\ last.ok
  /\ last.val.attrs["pkgs.a"].meta.broken
  /\ last.val.attrs["pkgs.a"].meta.available
  /\ Len(last.val.attrs["pkgs.a"].meta.maintainers) = 0
  /\ Len(last.val.attrs["pkgs.a"].meta.platforms) = 0
  /\ ~last.val.attrs["pkgs.a"].attr.some

----------------------------------------------------------------------------
(* The Maintainer decoder as a state machine *)

\* what the tool can write for a member of a maintainer object, 0 for none
MaintainerChoices ==
  [name : 0..3, email : 0..2, github : 0..2, githubId : 0..4, keys : 0..4]

KeyObject == JObj([longkeyid |-> Text, fingerprint |-> Text])

MaintainerMember(key, c) ==
  IF c = 0 THEN Absent
  ELSE IF key = "name" THEN IF c = 1 THEN Text ELSE IF c = 2 THEN JNull ELSE JNum("1")
  ELSE IF key = "email" THEN IF c = 1 THEN Text ELSE JNull
  ELSE IF key = "github" THEN IF c = 1 THEN Text ELSE JNum("1")
  ELSE IF key = "githubId"
    THEN IF c = 1 THEN JNum("1") ELSE IF c = 2 THEN JNull
         ELSE IF c = 3 THEN JNum("-1") ELSE Text
  ELSE IF c = 1 THEN JArr(<<>>)
       ELSE IF c = 2 THEN JArr(<<KeyObject>>)
       ELSE IF c = 3 THEN JArr(<<JObj([longkeyid |-> Text])>>)
       ELSE Text

MaintainerObject(choice) ==
  ObjectWith([key \in DOMAIN choice |-> MaintainerMember(key, choice[key])])

MaintainerScalars == {Text, JStr(""), JNum("1"), JBool("true"), JNull}

InitMaintainer ==
  /\ cache_path = FALSE
  /\ file = NoFile
  /\ \/ \E j \in MaintainerScalars : last = Input(j)
     \/ \E choice \in MaintainerChoices : last = Input(MaintainerObject(choice))
  /\ prev = Brief(Start)

DecodeMaintainer ==
  /\ last.op = "input"
  /\ Apply("de_Maintainer", last.arg, de_Maintainer(last.arg))

NextMaintainer == DecodeMaintainer

SpecMaintainer == InitMaintainer /\ [][NextMaintainer]_vars

----------------------------------------------------------------------------
(* Claims about the Maintainer decoder, checked under SpecMaintainer *)

\* C13: a bare JSON string decodes as Maintainer::Name and any JSON object
\* decodes as Maintainer::Info, so that no string and no object fails to
\* decode.
C13_MaintainerTotal ==
  last.op = "de_Maintainer" =>
    /\ last.arg.k = "str" =>
         last.ok /\ last.val.variant = "Name" /\ last.val.value = last.arg.v
    /\ last.arg.k = "obj" => last.ok /\ last.val.variant = "Info"

\* the member `key` of an object, when it has it, is of one of the kinds
TypedIfPresent(j, key, kinds) == Has(j, key) => j.v[key].k \in kinds

\* the objects MaintainerInfo is decoded from: a string email, and the other
\* members of their types where they are given
InfoShaped(j) ==
  /\ j.k = "obj"
  /\ HasString(j, "email")
  /\ TypedIfPresent(j, "name", {"str", "null"})
  /\ TypedIfPresent(j, "github", {"str", "null"})
  /\ Has(j, "githubId") =>
       \/ j.v["githubId"].k = "null"
       \/ j.v["githubId"].k = "num" /\ j.v["githubId"].v \notin NegativeNumerals
  /\ Has(j, "keys") =>
       /\ j.v["keys"].k = "arr"
       /\ \A i \in 1..Len(j.v["keys"].v) :
            /\ j.v["keys"].v[i].k = "obj"
            /\ HasString(j.v["keys"].v[i], "longkeyid")
            /\ HasString(j.v["keys"].v[i], "fingerprint")

\* what holds of the decoder: strings are Name, the objects with a string
\* email and well typed members are Info with the defaults for the members
\* left out, and every other object or scalar is a decode failure
C13_StringsAndInfoObjects ==
  last.op = "de_Maintainer" =>
    /\ last.arg.k = "str" =>
         last.ok /\ last.val.variant = "Name" /\ last.val.value = last.arg.v
    /\ InfoShaped(last.arg) =>
         /\ last.ok /\ last.val.variant = "Info"
         /\ last.val.value.email = last.arg.v["email"].v
         /\ ~Has(last.arg, "name") => ~last.val.value.name.some
         /\ ~Has(last.arg, "github") => ~last.val.value.github.some
         /\ ~Has(last.arg, "githubId") => ~last.val.value.github_id.some
         /\ ~Has(last.arg, "keys") => Len(last.val.value.keys) = 0
    /\ (last.arg.k # "str" /\ ~InfoShaped(last.arg)) => ~last.ok

\* an object that names the maintainer but has no email is refused
C13_NoEmailRefused ==
  /\ last.op = "de_Maintainer"
  /\ last.arg.k = "obj" /\ DOMAIN last.arg.v = {"name"}
  /\ last.arg.v["name"].k = "str"
  /\ ~last.ok

----------------------------------------------------------------------------
(* nix.rs: the console renderers. The text written is a sequence of         *)
(* characters in which a styled label ("name:" in bold) is one element; the *)
(* styles of the values are left out. A String of a record is a sequence of *)
(* characters here.                                                         *)

Unfree == <<"U", "n", "f", "r", "e", "e">>
unfree == <<"u", "n", "f", "r", "e", "e">>

\* ConsoleFormatFullLicense::fmt_unfree
fmt_unfree(license) ==
  LET has_full_name == license.full_name # Unfree
      has_short_name == license.short_name # unfree
      names == IF has_full_name
                 THEN license.full_name \o <<SP, "(">> \o unfree
                 ELSE unfree
      short == IF has_short_name
                 THEN (IF has_full_name THEN <<";", SP>> ELSE <<SP, "(">>)
                        \o license.short_name \o <<")">>
                 ELSE IF has_full_name THEN <<")">> ELSE <<>>
  IN  names \o short \o (IF license.url.some THEN <<SP>> \o license.url.v ELSE <<>>)

\* ConsoleFormatFullLicense::fmt_free
fmt_free(license) ==
  (IF license.spdx_id.some THEN license.spdx_id.v
   ELSE license.short_name
          \o (IF ~license.url.some
                THEN <<SP, "(">> \o license.full_name \o <<")">>
                ELSE <<>>))
    \o (IF license.url.some THEN <<SP>> \o license.url.v ELSE <<>>)

\* Display for ConsoleFormatFullLicense
fmt_FullLicense(license) ==
  IF license.free THEN fmt_free(license) ELSE fmt_unfree(license)

\* write_licenses: nothing for no license, else the licenses with a newline
\* and nine spaces between them
write_licenses(licenses) ==
  IF Len(licenses) = 0 THEN <<>>
  ELSE IF Len(licenses) = 1 THEN fmt_FullLicense(licenses[1])
  ELSE Concat([i \in 1..(Len(licenses) - 1) |->
                 fmt_FullLicense(licenses[i]) \o <<NL, SP, SP, SP, SP, SP, SP, SP, SP, SP>>])
         \o fmt_FullLicense(licenses[Len(licenses)])

\* Display for ConsoleFormatLicense
fmt_License(license) ==
  IF license.variant = "Id" THEN license.value
  ELSE IF license.variant = "Named" THEN license.value.full_name
  ELSE IF license.variant = "Url" THEN license.value.url
  ELSE IF license.variant = "Full" THEN fmt_FullLicense(license.value)
  ELSE write_licenses(license.value)

\* a label and its colon in bold: one element of the text
Label(label) ==
  IF label = "attr" THEN "attr:"
  ELSE IF label = "name" THEN "name:"
  ELSE IF label = "broken" THEN "broken:"
  ELSE IF label = "available" THEN "available:"
  ELSE IF label = "priority" THEN "priority:"
  ELSE IF label = "homepage" THEN "homepage:"
  ELSE IF label = "description" THEN "description:"
  ELSE IF label = "long desc." THEN "long desc.:"
  ELSE IF label = "license" THEN "license:"
  ELSE "defined in:"

\* write_val!: writeln!(f, "{} {}", style(format!("{}:", label)).bold(), val)
write_val(label, val) == <<Label(label), SP>> \o val \o <<NL>>

\* write_val_opt!
write_val_opt(label, val) == IF val.some THEN write_val(label, val.v) ELSE <<>>

\* the long_description block of ConsoleFormatInfo::fmt: the first line under
\* the label, the others after twelve spaces, nothing when there is no line
write_long_description(long_desc) ==
  LET ls == lines(long_desc)
  IN  IF Len(ls) = 0 THEN <<>>
      ELSE write_val("long desc.", ls[1])
             \o Concat([i \in 1..(Len(ls) - 1) |->
                          <<SP, SP, SP, SP, SP, SP, SP, SP, SP, SP, SP, SP>>
                            \o ls[i + 1] \o <<NL>>])

\* Display for ConsoleFormatInfo
fmt_NixInfo(info) ==
  LET meta == info.meta
  IN  write_val_opt("attr", info.attr)
        \o write_val("name", info.name)
        \o (IF meta.broken THEN write_val("broken", <<"t", "r", "u", "e">>) ELSE <<>>)
        \o (IF ~meta.available
              THEN write_val("available", <<"f", "a", "l", "s", "e">>)
              ELSE <<>>)
        \o write_val_opt("priority", meta.priority)
        \o write_val_opt("homepage", meta.homepage)
        \o write_val_opt("description", meta.description)
        \o (IF meta.long_description.some
              THEN write_long_description(meta.long_description.v)
              ELSE <<>>)
        \o (IF meta.license.some
              THEN write_val("license", fmt_License(meta.license.v))
              ELSE <<>>)
        \o (IF meta.position.some
              THEN write_val("defined in",
                     meta.position.v.path \o <<SP, "l", "i", "n", "e", SP>>
                       \o meta.position.v.line)
              ELSE <<>>)

----------------------------------------------------------------------------
(* The single-record renderer as a state machine *)

\* the fields of the records of the model, 0 or FALSE for the default
RenderChoices ==
  [attr : 0..1, broken : BOOLEAN, available : BOOLEAN, priority : 0..2,
   homepage : 0..1, description : 0..1, long_description : 0..4,
   license : 0..9, position : 0..1]

FullLicenseOf(full_name, short_name, spdx_id, url, free) ==
  [full_name |-> full_name, short_name |-> short_name, spdx_id |-> spdx_id,
   url |-> url, free |-> free]

FreeLicense == FullLicenseOf(<<"F">>, <<"s">>, Some(<<"I">>), None, TRUE)
UnfreeLicense == FullLicenseOf(Unfree, unfree, None, None, FALSE)
UnfreeNamedLicense == FullLicenseOf(<<"F">>, <<"s">>, None, Some(<<"u">>), FALSE)

LicenseOf(c) ==
  IF c = 1 THEN [variant |-> "Id", value |-> <<"M">>]
  ELSE IF c = 2 THEN [variant |-> "Named", value |-> [full_name |-> <<"F">>]]
  ELSE IF c = 3 THEN [variant |-> "Url", value |-> [url |-> <<"u">>]]
  ELSE IF c = 4 THEN [variant |-> "Full", value |-> FreeLicense]
  ELSE IF c = 5 THEN [variant |-> "Full", value |-> UnfreeLicense]
  ELSE IF c = 6 THEN [variant |-> "Full", value |-> UnfreeNamedLicense]
  ELSE IF c = 7 THEN [variant |-> "FullVec", value |-> <<>>]
  ELSE IF c = 8 THEN [variant |-> "FullVec", value |-> <<FreeLicense>>]
  ELSE [variant |-> "FullVec", value |-> <<FreeLicense, UnfreeNamedLicense>>]

LongDescriptionOf(c) ==
  IF c = 1 THEN <<>>
  ELSE IF c = 2 THEN <<"a">>
  ELSE IF c = 3 THEN <<"a", NL, "b", NL>>
  ELSE <<NL>>

InfoOf(choice) ==
  [name |-> <<"n">>, pname |-> <<"p">>, version |-> <<"1">>, system |-> <<"x">>,
   attr |-> IF choice.attr = 0 THEN None ELSE Some(<<"p", ".", "n">>),
   meta |->
     [available |-> choice.available,
      broken |-> choice.broken,
      description |-> IF choice.description = 0 THEN None ELSE Some(<<"d">>),
      long_description |-> IF choice.long_description = 0 THEN None
                           ELSE Some(LongDescriptionOf(choice.long_description)),
      homepage |-> IF choice.homepage = 0 THEN None ELSE Some(<<"h">>),
      license |-> IF choice.license = 0 THEN None ELSE Some(LicenseOf(choice.license)),
      name |-> None,
      outputs_to_install |-> <<>>,
      platforms |-> <<>>,
      position |-> IF choice.position = 0 THEN None
                   ELSE Some([path |-> <<"f">>, line |-> <<"7">>]),
      priority |-> IF choice.priority = 0 THEN None
                   ELSE IF choice.priority = 1 THEN Some(<<"5">>)
                   ELSE Some(<<"-", "5">>),
      maintainers |-> <<>>]]

InitRender ==
  /\ cache_path = FALSE
  /\ file = NoFile
  /\ \E choice \in RenderChoices : last = Input(InfoOf(choice))
  /\ prev = Brief(Start)

ConsoleFmt ==
  /\ last.op = "input"
  /\ Apply("console_fmt", last.arg, Ok(fmt_NixInfo(last.arg)))

NextRender == ConsoleFmt

SpecRender == InitRender /\ [][NextRender]_vars

----------------------------------------------------------------------------
(* Claims about the renderer, checked under SpecRender *)

Labels ==
  {Label(label) : label \in {"attr", "name", "broken", "available", "priority",
                             "homepage", "description", "long desc.", "license",
                             "defined in"}}

\* the labels of a text, in the order they are written
LabelsOf(text) == SelectSeq(text, LAMBDA e : e \in Labels)

\* every label of the text is the first element of a line
LabelsStartLines(text) ==
  \A i \in 1..Len(text) : text[i] \in Labels => (i = 1 \/ text[i - 1] = NL)

When(present, label) == IF present THEN <<Label(label)>> ELSE <<>>

\* the labels of the fields of a record that are present, in the fixed order
PresentLabels(info) ==
  When(info.attr.some, "attr") \o <<Label("name")>>
    \o When(info.meta.broken, "broken")
    \o When(~info.meta.available, "available")
    \o When(info.meta.priority.some, "priority")
    \o When(info.meta.homepage.some, "homepage")
    \o When(info.meta.description.some, "description")
    \o When(info.meta.long_description.some, "long desc.")
    \o When(info.meta.license.some, "license")
    \o When(info.meta.position.some, "defined in")

\* C14: for every record the renderer writes one labeled line for each field
\* that is present and none for a field that is absent, in the order attr,
\* name, broken (if true), available (if false), priority, homepage,
\* description, long description, license, position; also when the long
\* description is present and empty, and when the license is an empty FullVec.
C14_OneLabelPerPresentField ==
  last.op = "console_fmt" =>
    /\ LabelsOf(last.val) = PresentLabels(last.arg)
    /\ LabelsStartLines(last.val)
    /\ last.val # <<>> /\ last.val[Len(last.val)] = NL

\* the labels of the fields that are written: a long description without a
\* line (the empty string) is written as nothing
WrittenLabels(info) ==
  When(info.attr.some, "attr") \o <<Label("name")>>
    \o When(info.meta.broken, "broken")
    \o When(~info.meta.available, "available")
    \o When(info.meta.priority.some, "priority")
    \o When(info.meta.homepage.some, "homepage")
    \o When(info.meta.description.some, "description")
    \o When(info.meta.long_description.some /\ Len(info.meta.long_description.v) > 0,
            "long desc.")
    \o When(info.meta.license.some, "license")
    \o When(info.meta.position.some, "defined in")

\* what holds of the renderer: the order is the fixed one and the labels are
\* those of the present fields but for an empty long description
C14_LabelsButEmptyLongDescription ==
  last.op = "console_fmt" =>
    /\ LabelsOf(last.val) = WrittenLabels(last.arg)
    /\ LabelsStartLines(last.val)

\* a record whose long description is Some("") is written without the
\* "long desc." label, one whose license is an empty FullVec with "license:"
C14_EmptyLongDescriptionUnwritten ==
  /\ last.op = "console_fmt"
  /\ last.arg.meta.long_description.some
  /\ Len(last.arg.meta.long_description.v) = 0
  /\ last.arg.meta.license.some
  /\ last.arg.meta.license.v.variant = "FullVec"
  /\ Len(last.arg.meta.license.v.value) = 0
  /\ LabelsOf(last.val) = <<Label("name"), Label("license")>>

====
